---- MODULE Spec2Model ----
(***************************************************************************)
(* The marshaling engine of jsonapi (response.go): the reflective walk of  *)
(* an annotated object graph into Nodes, the included accumulator, the     *)
(* payload assembly and the top-level Marshal* entry points.               *)
(*                                                                         *)
(* A Go string is modelled as a sequence of chunks, each chunk being       *)
(* either the separator "," or a non-empty comma-free word, with no two    *)
(* words adjacent; strings.Split and fmt.Sprintf work on the chunks.       *)
(***************************************************************************)
EXTENDS Integers, Sequences, FiniteSets, TLC

VARIABLES heap,     \* the caller's objects: object reference -> its struct fields
          called,   \* "" before the call, afterwards the entry point called
          arg,      \* the model / models argument of the call
          metaArg,  \* the meta argument of the call
          ret,      \* what the call returned: [payload, err]
          written,  \* what the call wrote to its io.Writer
          trace,    \* the steps of the traversal the call performed
          stack,    \* the visitModelNode activations of a call in progress
          accumulator  \* the included map of a call in progress

vars == <<heap, called, arg, metaArg, ret, written, trace, stack, accumulator>>

(***************************************************************************)
(* Bounds of the model.                                                    *)
(***************************************************************************)
NumObjects == 3   \* objects of a graph heap
MaxRel == 2       \* elements of a to-many relation field
MaxModels == 2    \* elements of the slice given to a "many" entry point
MaxFields == 2    \* tagged fields of the varied struct of a tag heap

(***************************************************************************)
(* Errors.                                                                 *)
(***************************************************************************)
NoErr == "nil"
ErrBadJSONAPIStructTag == "Bad jsonapi struct tag format"
ErrBadJSONAPIID == "id should be either string, int or uint"
ErrExpectedSlice == "models should be a slice of struct pointers"
\* a run-time panic of the reflect package: it unwinds the call, it is
\* not an error value
Panic == "panic"

clientIDAnnotation == <<"client-id">>

(***************************************************************************)
(* Strings.                                                                *)
(***************************************************************************)
RECURSIVE SplitFrom(_, _, _)
SplitFrom(s, i, cur) ==
  IF i > Len(s) THEN <<cur>>
  ELSE IF s[i] = "," THEN <<cur>> \o SplitFrom(s, i + 1, <<>>)
  ELSE SplitFrom(s, i + 1, cur \o <<s[i]>>)

\* strings.Split(tag, ",")
Split(s) == SplitFrom(s, 1, <<>>)

Digit == <<"0", "1", "2", "3", "4", "5", "6", "7", "8", "9">>

RECURSIVE Digits(_)
Digits(n) == IF n < 10 THEN Digit[n + 1] ELSE Digits(n \div 10) \o Digit[(n % 10) + 1]

\* strconv.Itoa / FormatInt / FormatUint, base 10
Itoa(n) == IF n < 0 THEN <<"-" \o Digits(0 - n)>> ELSE <<Digits(n)>>

\* fmt.Sprintf("%s,%s", a, b)
Sprintf(a, b) == a \o <<",">> \o b

(***************************************************************************)
(* int64.  A value is its two's-complement bit pattern, eight limbs of     *)
(* eight bits, least significant first; sums and products wrap as Go's do. *)
(***************************************************************************)
Limbs == 8
LimbBase == 256

RECURSIVE NatLimbs(_, _)
NatLimbs(n, k) == IF k = 0 THEN <<>> ELSE <<n % LimbBase>> \o NatLimbs(n \div LimbBase, k - 1)

RECURSIVE AddFrom(_, _, _, _)
AddFrom(a, b, i, carry) ==
  IF i > Len(a) THEN <<>>
  ELSE <<(a[i] + b[i] + carry) % LimbBase>>
         \o AddFrom(a, b, i + 1, (a[i] + b[i] + carry) \div LimbBase)

\* a + b
Add64(a, b) == AddFrom(a, b, 1, 0)

\* -a
Neg64(a) == AddFrom([i \in DOMAIN a |-> LimbBase - 1 - a[i]], NatLimbs(1, Len(a)), 1, 0)

\* int64(n), for an n the model's integers hold
I64(n) == IF n >= 0 THEN NatLimbs(n, Limbs) ELSE Neg64(NatLimbs(0 - n, Limbs))

IsNeg64(a) == a[Len(a)] >= LimbBase \div 2

\* a - b
Sub64(a, b) == Add64(a, Neg64(b))

RECURSIVE MulFrom(_, _, _, _)
MulFrom(a, m, i, carry) ==
  IF i > Len(a) THEN <<>>
  ELSE <<(a[i] * m + carry) % LimbBase>>
         \o MulFrom(a, m, i + 1, (a[i] * m + carry) \div LimbBase)

\* a * m, for 0 <= m <= 1000000
Mul64(a, m) == MulFrom(a, m, 1, 0)

\* the quotient of the unsigned pattern a by d: [q, r] from limb i down
RECURSIVE DivFrom(_, _, _, _)
DivFrom(a, d, i, r) ==
  IF i = 0 THEN <<>>
  ELSE DivFrom(a, d, i - 1, (r * LimbBase + a[i]) % d) \o <<(r * LimbBase + a[i]) \div d>>

UDiv64(a, d) == DivFrom(a, d, Len(a), 0)

\* a / d as Go divides: truncated toward zero (0 < d <= 1000000)
Quo64(a, d) == IF IsNeg64(a) THEN Neg64(UDiv64(Neg64(a), d)) ELSE UDiv64(a, d)

\* a % d as Go computes it: the sign of a
Rem64(a, d) == Sub64(a, Mul64(Quo64(a, d), d))

IsZero64(a) == \A i \in DOMAIN a : a[i] = 0

\* the value of a, for an a whose value the model's integers hold
ToInt(a) ==
  IF IsNeg64(a)
  THEN 0 - (Neg64(a)[1] + Neg64(a)[2] * 256 + Neg64(a)[3] * 65536 + Neg64(a)[4] * 16777216)
  ELSE a[1] + a[2] * 256 + a[3] * 65536 + a[4] * 16777216

\* the decimal digits of the unsigned pattern a
RECURSIVE UDigits(_)
UDigits(a) ==
  IF IsZero64(UDiv64(a, 10)) THEN <<Digit[ToInt(Sub64(a, Mul64(UDiv64(a, 10), 10))) + 1]>>
  ELSE Append(UDigits(UDiv64(a, 10)), Digit[ToInt(Sub64(a, Mul64(UDiv64(a, 10), 10))) + 1])

\* strconv.FormatInt(a, 10), one character per element
FormatInt(a) == IF IsNeg64(a) THEN <<"-">> \o UDigits(Neg64(a)) ELSE UDigits(a)

(***************************************************************************)
(* time.Time: the seconds since January 1 of year 1 (an int64) and the     *)
(* nanoseconds within the second.  The location is left out: instants are  *)
(* compared as Time.Equal compares them.                                   *)
(***************************************************************************)
Millisecond == 1000000     \* time.Millisecond, in nanoseconds
Second == 1000000000       \* time.Second, in nanoseconds

\* seconds from year 1 to 1970: 62135596800
unixToInternal == Add64(Mul64(I64(62135596), 1000), I64(800))
internalToUnix == Neg64(unixToInternal)

Time(sec, nsec) == [sec |-> sec, nsec |-> nsec]

\* time.Time{}
ZeroTime == Time(I64(0), 0)

\* t.IsZero()
IsZero(t) == IsZero64(t.sec) /\ t.nsec = 0

\* t.Unix()
Unix(t) == Add64(t.sec, internalToUnix)

\* t.UnixNano(): (sec + internalToUnix) * 1e9 + nsec, wrapping
UnixNano(t) == Add64(Mul64(Mul64(Unix(t), 1000), 1000000), I64(t.nsec))

\* time.Unix(sec, nsec), for a nsec of less than a second either way
TimeUnix(sec, nsec) ==
  IF nsec < 0 THEN Time(Add64(Sub64(sec, I64(1)), unixToInternal), nsec + Second)
  ELSE Time(Add64(sec, unixToInternal), nsec)

(***************************************************************************)
(* Values of struct fields and of interface{} arguments.                   *)
(***************************************************************************)
Val(k, s, n, r, rs) ==
  [kind |-> k, str |-> s, num |-> n, ref |-> r, refs |-> rs, tm |-> ZeroTime, wide |-> <<>>]
StrVal(s) == Val("string", s, 0, 0, <<>>)
IntVal(n) == Val("int", <<>>, n, 0, <<>>)
FloatVal(n) == Val("float64", <<>>, n, 0, <<>>)
PtrVal(r) == Val("ptr", <<>>, 0, r, <<>>)        \* r = 0: a nil pointer
SliceVal(rs) == Val("slice", <<>>, 0, 0, rs)
NullVal == Val("null", <<>>, 0, 0, <<>>)
\* a time.Time
TimeVal(t) == [Val("time", <<>>, 0, 0, <<>>) EXCEPT !.tm = t]
\* a *time.Time: nil (r = 0), or a pointer to t
TimePtrVal(r, t) == [Val("*time", <<>>, 0, r, <<>>) EXCEPT !.tm = t]
\* an int64 as an interface{} value
Int64Val(a) == [Val("int64", <<>>, 0, 0, <<>>) EXCEPT !.wide = a]

Field(t, v) == [tag |-> t, val |-> v]

\* reflect.Zero(fieldValue.Type()).Interface()
ZeroOf(v) == Val(v.kind, <<>>, 0, 0, <<>>)

(***************************************************************************)
(* UnixMilli (attributes.go): a struct embedding a time.Time, marshalled   *)
(* as the milliseconds since 1970.  JSON bytes are sequences of            *)
(* characters.                                                             *)
(***************************************************************************)
ErrSyntax == "invalid syntax"
ErrRange == "value out of range"

DigitValue(c) == CHOOSE n \in 0..9 : Digit[n + 1] = c

\* strconv.ParseUint(s, 10, 64) from character i on, un being the value of
\* the digits read; one limb more than 64 bits shows the overflow
RECURSIVE ParseUintFrom(_, _, _)
ParseUintNext(cs, i, next) ==
  IF next[Limbs + 1] # 0 THEN [un |-> next, err |-> ErrRange]
  ELSE ParseUintFrom(cs, i + 1, next)

ParseUintFrom(cs, i, un) ==
  IF i > Len(cs) THEN [un |-> un, err |-> NoErr]
  ELSE IF cs[i] \notin {Digit[n] : n \in DOMAIN Digit} THEN [un |-> un, err |-> ErrSyntax]
  ELSE ParseUintNext(cs, i, AddFrom(MulFrom(un, 10, 1, 0),
                                    NatLimbs(DigitValue(cs[i]), Limbs + 1), 1, 0))

ParseUint(cs) ==
  IF cs = <<>> THEN [un |-> NatLimbs(0, Limbs + 1), err |-> ErrSyntax]
  ELSE ParseUintFrom(cs, 1, NatLimbs(0, Limbs + 1))

\* the magnitude un is above 1<<63 - 1 (a positive number), or above
\* 1<<63 (a negative one)
OutOfRange(neg, un) ==
  IF ~neg THEN un[Limbs] >= LimbBase \div 2
  ELSE \/ un[Limbs] > LimbBase \div 2
       \/ (un[Limbs] = LimbBase \div 2 /\ \E i \in 1..(Limbs - 1) : un[i] # 0)

\* ParseInt once the digits have been read
ParseIntSigned(neg, r) ==
  IF r.err # NoErr THEN [v |-> I64(0), err |-> r.err]
  ELSE IF OutOfRange(neg, r.un) THEN [v |-> I64(0), err |-> ErrRange]
  ELSE [v |-> IF neg THEN Neg64(SubSeq(r.un, 1, Limbs)) ELSE SubSeq(r.un, 1, Limbs),
        err |-> NoErr]

\* strconv.ParseInt(s, 10, 64)
ParseInt(cs) ==
  IF cs = <<>> THEN [v |-> I64(0), err |-> ErrSyntax]
  ELSE IF cs[1] = "+" THEN ParseIntSigned(FALSE, ParseUint(Tail(cs)))
  ELSE IF cs[1] = "-" THEN ParseIntSigned(TRUE, ParseUint(Tail(cs)))
  ELSE ParseIntSigned(FALSE, ParseUint(cs))

\* the struct: one embedded, untagged time.Time
UnixMilli(t) == <<Field(<<>>, TimeVal(t))>>

\* func (t UnixMilli) MarshalJSON()
MarshalJSON(t) == FormatInt(Quo64(UnixNano(t), Millisecond))

\* UnmarshalJSON once ParseInt has returned r
UnmarshalParsed(t, r) ==
  IF r.err # NoErr THEN [t |-> t, err |-> r.err]
  ELSE [t |-> TimeUnix(Quo64(r.v, 1000), ToInt(Mul64(Rem64(r.v, 1000), Millisecond))),
        err |-> NoErr]

\* func (t *UnixMilli) UnmarshalJSON(data)
UnmarshalJSON(t, data) ==
  IF data = <<"n", "u", "l", "l">> THEN [t |-> t, err |-> NoErr]
  ELSE UnmarshalParsed(t, ParseInt(data))

(***************************************************************************)
(* Nodes.                                                                  *)
(***************************************************************************)
NilNode == [nil |-> TRUE]

NewNode == [Type |-> <<>>, ID |-> <<>>, ClientID |-> <<>>,
            Attributes |-> <<>>, Relationships |-> <<>>]

Put(f, k, v) == [x \in (DOMAIN f) \cup {k} |-> IF x = k THEN v ELSE f[x]]

\* a linkage: RelationshipOneNode (many = FALSE, one element) or
\* RelationshipManyNode (many = TRUE)
OneLinkage(n) == [many |-> FALSE, data |-> <<n>>]
ManyLinkage(ns) == [many |-> TRUE, data |-> ns]

\* a copy that keeps everything
toShallowNodeFull(node) == node

toShallowNode(node) == [NewNode EXCEPT !.ID = node.ID, !.Type = node.Type]

\* the included accumulator: a pointer to a map from "type,id" to Node
NilIncluded == [isNil |-> TRUE, m |-> <<>>]
MakeIncluded == [isNil |-> FALSE, m |-> <<>>]

\* a key that leaves the type out
IncludedKeyIDOnly(n) == n.ID

IncludedKey(n) == Sprintf(n.Type, n.ID)

\* an insertion that replaces the node already stored
appendIncludedReplace(m, n) == [m EXCEPT !.m = Put(m.m, IncludedKey(n), n)]

appendIncluded(m, n) ==
  LET k == IncludedKey(n)
  IN IF k \in DOMAIN m.m THEN m ELSE [m EXCEPT !.m = Put(m.m, k, n)]

(***************************************************************************)
(* Steps of the traversal, recorded as the call performs them.             *)
(***************************************************************************)
Ev(e, o, i, k, er) == [ev |-> e, obj |-> o, idx |-> i, key |-> k, err |-> er]
EnterEv(o) == Ev("enter", o, 0, <<>>, NoErr)
FieldEv(o, i) == Ev("field", o, i, <<>>, NoErr)
AppendEv(k) == Ev("append", 0, 0, k, NoErr)
ReturnEv(o, er) == Ev("return", o, 0, <<>>, er)

(***************************************************************************)
(* visitModelNode, field by field.  A step of the field loop yields the    *)
(* node so far, the pending error, the accumulator, the trace, and whether *)
(* the loop is left (break) or goes on to the next field.                  *)
(***************************************************************************)
Step(n, e, inc, lg, b) == [node |-> n, er |-> e, included |-> inc, log |-> lg, brk |-> b]

Result(n, e, inc, lg) == [node |-> n, err |-> e, included |-> inc, log |-> lg]

\* an arity test that lets any client-id tag pass
BadArityNoClientID(annotation, nargs) == annotation # clientIDAnnotation /\ nargs < 2

\* the arity test on the split tag
BadArity(annotation, nargs) ==
  \/ (annotation = clientIDAnnotation /\ nargs # 1)
  \/ (annotation # clientIDAnnotation /\ nargs < 2)

\* the type switch on the primary field's value: [ok, id]
PrimaryID(fieldValue) ==
  CASE fieldValue.kind = "string" -> [ok |-> TRUE, id |-> fieldValue.str]
    [] fieldValue.kind \in {"int", "int64", "uint64"} -> [ok |-> TRUE, id |-> Itoa(fieldValue.num)]
    [] OTHER -> [ok |-> FALSE, id |-> <<>>]

\* annotation == "primary".  The break of the default case leaves the
\* switch, not the field loop: the type is set and the loop goes on.
primaryField(node, er, included, log, args, fieldValue) ==
  LET c == PrimaryID(fieldValue)
      n1 == IF c.ok THEN [node EXCEPT !.ID = c.id] ELSE node
  IN Step([n1 EXCEPT !.Type = args[2]],
          IF c.ok THEN er ELSE ErrBadJSONAPIID,
          included, log, FALSE)

\* fieldValue.String()
StringOf(fieldValue) ==
  IF fieldValue.kind = "string" THEN fieldValue.str
  ELSE <<"<" \o fieldValue.kind \o " Value>">>

\* annotation == clientIDAnnotation
clientIDField(node, er, included, log, args, fieldValue) ==
  LET clientID == StringOf(fieldValue)
  IN Step(IF clientID # <<>> THEN [node EXCEPT !.ClientID = clientID] ELSE node,
          er, included, log, FALSE)

\* the omitempty option of an attr tag
AttrOmitEmpty(args) == IF Len(args) > 2 THEN args[3] = <<"omitempty">> ELSE FALSE

\* a timestamp's place in a map of attributes: the map after a time.Time
\* field named name
putTime(attrs, name, fieldValue) ==
  IF IsZero(fieldValue.tm) THEN attrs
  ELSE Put(attrs, name, Int64Val(Unix(fieldValue.tm)))

\* a *time.Time handled as a time.Time is: a zero instant always left out
putTimePtrAsTime(attrs, name, omitEmpty, fieldValue) ==
  IF fieldValue.ref = 0
  THEN IF omitEmpty THEN attrs ELSE Put(attrs, name, NullVal)
  ELSE IF IsZero(fieldValue.tm) THEN attrs
  ELSE Put(attrs, name, Int64Val(Unix(fieldValue.tm)))

\* the map after a *time.Time field named name
putTimePtr(attrs, name, omitEmpty, fieldValue) ==
  IF fieldValue.ref = 0
  THEN IF omitEmpty THEN attrs ELSE Put(attrs, name, NullVal)
  ELSE IF IsZero(fieldValue.tm) /\ omitEmpty THEN attrs
  ELSE Put(attrs, name, Int64Val(Unix(fieldValue.tm)))

\* annotation == "attr": a time.Time, a *time.Time, or a field that is
\* not a time
attrField(node, er, included, log, args, fieldValue) ==
  LET omitEmpty == AttrOmitEmpty(args)
  IN IF fieldValue.kind = "time"
     THEN Step([node EXCEPT !.Attributes = putTime(@, args[2], fieldValue)],
               er, included, log, FALSE)
     ELSE IF fieldValue.kind = "*time"
     THEN Step([node EXCEPT !.Attributes = putTimePtr(@, args[2], omitEmpty, fieldValue)],
               er, included, log, FALSE)
     ELSE IF omitEmpty /\ fieldValue = ZeroOf(fieldValue)
     THEN Step(node, er, included, log, FALSE)
     ELSE Step([node EXCEPT !.Attributes = Put(@, args[2], fieldValue)],
               er, included, log, FALSE)

\* a test that skips nil references only
RelationEmptyNilOnly(fieldValue) == fieldValue.kind # "slice" /\ fieldValue.ref = 0

\* the test that skips a relation field
RelationEmpty(fieldValue) ==
  LET isSlice == fieldValue.kind = "slice"
  IN (isSlice /\ Len(fieldValue.refs) < 1) \/ (~isSlice /\ fieldValue.ref = 0)

\* sideload, to-many: each visited node goes to included, its shallow
\* copy to the linkage
RECURSIVE sideloadMany(_, _, _, _, _)
sideloadMany(d, i, included, shallowNodes, log) ==
  IF i > Len(d) THEN [included |-> included, shallowNodes |-> shallowNodes, log |-> log]
  ELSE sideloadMany(d, i + 1, appendIncluded(included, d[i]),
                    Append(shallowNodes, toShallowNode(d[i])),
                    Append(log, AppendEv(IncludedKey(d[i]))))

RECURSIVE visitModelNode(_, _, _, _)
RECURSIVE relationshipsLoop(_, _, _, _, _, _)
RECURSIVE relationshipsNext(_, _, _, _, _)
RECURSIVE fieldNext(_, _, _, _)
RECURSIVE fieldLoop(_, _, _, _, _, _, _)

\* the loop of visitModelNodeRelationships after the visit of element i
\* has returned r
relationshipsNext(models, i, nodes, sideload, r) ==
  IF r.err # NoErr
  THEN [nodes |-> <<>>, err |-> r.err, included |-> r.included, log |-> r.log]
  ELSE relationshipsLoop(models, i + 1, Append(nodes, r.node),
                         r.included, sideload, r.log)

relationshipsLoop(models, i, nodes, included, sideload, log) ==
  IF i > Len(models) THEN [nodes |-> nodes, err |-> NoErr, included |-> included, log |-> log]
  ELSE relationshipsNext(models, i, nodes, sideload,
                         visitModelNode(PtrVal(models[i]), included, sideload, log))

visitModelNodeRelationships(relationName, models, included, sideload, log) ==
  relationshipsLoop(models.refs, 1, <<>>, included, sideload, log)

\* annotation == "relation", a to-many field that is not empty
\* the linkage of shallow nodes is stored once the sideload loop is over
relationManySideloaded(node, er, args, s) ==
  Step([node EXCEPT !.Relationships = Put(@, args[2], ManyLinkage(s.shallowNodes))],
       er, s.included, s.log, FALSE)

\* after visitModelNodeRelationships has returned r
relationManyVisited(node, er, sideload, args, r) ==
  IF r.err = NoErr
  THEN IF sideload
       THEN IF r.included.isNil
            THEN Step(node, Panic, r.included, r.log, TRUE)
            ELSE relationManySideloaded(node, er, args,
                                        sideloadMany(r.nodes, 1, r.included, <<>>, r.log))
       ELSE Step([node EXCEPT !.Relationships = Put(@, args[2], ManyLinkage(r.nodes))],
                 er, r.included, r.log, FALSE)
  ELSE Step(node, r.err, r.included, r.log, TRUE)

relationMany(node, er, included, sideload, log, args, fieldValue) ==
  relationManyVisited(node, er, sideload, args,
                      visitModelNodeRelationships(args[2], fieldValue, included, sideload, log))

\* annotation == "relation", a to-one field that is not nil
\* after the visit of the related object has returned r
relationOneVisited(node, er, sideload, args, r) ==
  IF r.err = NoErr
  THEN IF sideload
       THEN IF r.included.isNil
            THEN Step(node, Panic, r.included, r.log, TRUE)
            ELSE Step([node EXCEPT !.Relationships =
                          Put(@, args[2], OneLinkage(toShallowNode(r.node)))],
                      er, appendIncluded(r.included, r.node),
                      Append(r.log, AppendEv(IncludedKey(r.node))), FALSE)
       ELSE Step([node EXCEPT !.Relationships = Put(@, args[2], OneLinkage(r.node))],
                 er, r.included, r.log, FALSE)
  ELSE Step(node, r.err, r.included, r.log, TRUE)

relationOne(node, er, included, sideload, log, args, fieldValue) ==
  relationOneVisited(node, er, sideload, args,
                     visitModelNode(fieldValue, included, sideload, log))

relationField(node, er, included, sideload, log, args, fieldValue) ==
  IF fieldValue.kind \notin {"slice", "ptr"}
  THEN Step(node, Panic, included, log, TRUE)      \* IsNil of a value that has none
  ELSE IF RelationEmpty(fieldValue) THEN Step(node, er, included, log, FALSE)
  ELSE IF fieldValue.kind = "slice"
  THEN relationMany(node, er, included, sideload, log, args, fieldValue)
  ELSE relationOne(node, er, included, sideload, log, args, fieldValue)

\* one iteration of the field loop, for field i of object o
visitField(o, i, node, er, included, sideload, log) ==
  LET structField == heap[o][i]
      tag == structField.tag
      fieldValue == structField.val
      args == Split(tag)
      annotation == args[1]
      log1 == Append(log, FieldEv(o, i))
  IN IF tag = <<>> THEN Step(node, er, included, log, FALSE)
     ELSE IF Len(args) < 1 THEN Step(node, ErrBadJSONAPIStructTag, included, log1, TRUE)
     ELSE IF BadArity(annotation, Len(args))
     THEN Step(node, ErrBadJSONAPIStructTag, included, log1, TRUE)
     ELSE IF annotation = <<"primary">>
     THEN primaryField(node, er, included, log1, args, fieldValue)
     ELSE IF annotation = clientIDAnnotation
     THEN clientIDField(node, er, included, log1, args, fieldValue)
     ELSE IF annotation = <<"attr">>
     THEN attrField(node, er, included, log1, args, fieldValue)
     ELSE IF annotation = <<"relation">>
     THEN relationField(node, er, included, sideload, log1, args, fieldValue)
     ELSE Step(node, ErrBadJSONAPIStructTag, included, log1, TRUE)

\* the end of visitModelNode: nil and the error, or the node
visitReturn(o, node, er, included, log) ==
  Result(IF er # NoErr THEN NilNode ELSE node, er, included,
         Append(log, ReturnEv(o, er)))

\* the field loop after the iteration for field i has yielded s
fieldNext(o, i, sideload, s) ==
  IF s.brk THEN visitReturn(o, s.node, s.er, s.included, s.log)
  ELSE fieldLoop(o, i + 1, s.node, s.er, s.included, sideload, s.log)

fieldLoop(o, i, node, er, included, sideload, log) ==
  IF i > Len(heap[o]) THEN visitReturn(o, node, er, included, log)
  ELSE fieldNext(o, i, sideload, visitField(o, i, node, er, included, sideload, log))

\* reflect.ValueOf(model).Elem() and NumField() need a non-nil pointer to
\* a struct; anything else panics
visitModelNode(model, included, sideload, log) ==
  IF model.kind # "ptr" \/ model.ref = 0
  THEN Result(NilNode, Panic, included, log)
  ELSE fieldLoop(model.ref, 1, NewNode, NoErr, included, sideload,
                 Append(log, EnterEv(model.ref)))

(***************************************************************************)
(* visitMetaNode: the flat walk of the meta object.                        *)
(***************************************************************************)
\* the test on the split tag of a meta field: its length, and the option
MetaTagBad(args) ==
  \/ Len(args) < 1
  \/ Len(args) > 2
  \/ (Len(args) = 2 /\ args[2] # <<"omitempty">>)

\* the node after a field: a time.Time, a *time.Time, or a field that is
\* not a time
metaField(node, args, fieldValue) ==
  LET omitEmpty == Len(args) = 2 /\ args[2] = <<"omitempty">>
  IN IF fieldValue.kind = "time" THEN putTime(node, args[1], fieldValue)
     ELSE IF fieldValue.kind = "*time" THEN putTimePtr(node, args[1], omitEmpty, fieldValue)
     ELSE IF omitEmpty /\ fieldValue = ZeroOf(fieldValue) THEN node
     ELSE Put(node, args[1], fieldValue)

RECURSIVE metaLoop(_, _, _)
metaLoop(fields, i, node) ==
  IF i > Len(fields) THEN [node |-> node, err |-> NoErr]
  ELSE LET tag == fields[i].tag
           args == Split(tag)
       IN IF tag = <<>> THEN metaLoop(fields, i + 1, node)
          ELSE IF MetaTagBad(args) THEN [node |-> <<>>, err |-> ErrBadJSONAPIStructTag]
          ELSE metaLoop(fields, i + 1, metaField(node, args, fields[i].val))

visitMetaNode(meta) == metaLoop(meta.fields, 1, <<>>)

(***************************************************************************)
(* Payloads and the entry points.  A Go slice is nil or a list; a call's   *)
(* outcome is one of a set, the order of a map's iteration being free.     *)
(***************************************************************************)
NilSlice == [isNil |-> TRUE, elems |-> <<>>]
MkSlice(elems) == [isNil |-> FALSE, elems |-> elems]
AppendSlice(s, x) == MkSlice(Append(s.elems, x))

NilMeta == [isNil |-> TRUE, fields |-> <<>>]
MetaObject(fields) == [isNil |-> FALSE, fields |-> fields]
NilMetaNode == [isNil |-> TRUE, m |-> <<>>]

NilPayload == [nil |-> TRUE]
OnePayload(data, incl) == [Data |-> data, Included |-> incl, Meta |-> NilMetaNode]
ManyPayload(data, incl, meta) == [Data |-> data, Included |-> incl, Meta |-> meta]

\* what a call gives back: the payload and error returned, the documents
\* encoded to the writer, the steps of the traversal
Outcome(p, e, w, lg) == [payload |-> p, err |-> e, written |-> w, log |-> lg]

\* a tail that encodes whatever came back
EncodeToAlways(outs) == {Outcome(NilPayload, o.err, <<o.payload>>, o.log) : o \in outs}

\* the tail of a writer variant: return the error, or encode the payload
\* to the writer and return nil
EncodeTo(outs) ==
  {IF o.err # NoErr THEN Outcome(NilPayload, o.err, <<>>, o.log)
   ELSE Outcome(NilPayload, NoErr, <<o.payload>>, o.log) : o \in outs}

RECURSIVE Orders(_)
Orders(S) ==
  IF S = {} THEN {<<>>}
  ELSE UNION {{<<x>> \o t : t \in Orders(S \ {x})} : x \in S}

\* the values of the map, in each order its iteration can take
nodeMapValues(m) ==
  {MkSlice([i \in 1..Len(ks) |-> m.m[ks[i]]]) : ks \in Orders(DOMAIN m.m)}

InterfaceSlice(elems) == [kind |-> "slice", elems |-> elems]
NonSlice(k) == [kind |-> k, elems |-> <<>>]

convertToSliceInterface(i) ==
  IF i.kind # "slice" THEN [response |-> <<>>, err |-> ErrExpectedSlice]
  ELSE [response |-> i.elems, err |-> NoErr]

\* MarshalOne after the visit of the model has returned r
marshalOneVisited(r) ==
  IF r.err # NoErr THEN {Outcome(NilPayload, r.err, <<>>, r.log)}
  ELSE {Outcome(OnePayload(r.node, incl), NoErr, <<>>, r.log) :
          incl \in nodeMapValues(r.included)}

MarshalOne(model) == marshalOneVisited(visitModelNode(model, MakeIncluded, TRUE, <<>>))

MarshalOnePayload(model) == EncodeTo(MarshalOne(model))

\* a payload of the root node alone, after its visit has returned r
rootOnlyVisited(r) ==
  IF r.err # NoErr THEN {Outcome(NilPayload, r.err, <<>>, r.log)}
  ELSE {Outcome(OnePayload(r.node, NilSlice), NoErr, <<>>, r.log)}

MarshalOnePayloadWithoutIncluded(model) ==
  EncodeTo(rootOnlyVisited(visitModelNode(model, MakeIncluded, TRUE, <<>>)))

MarshalOnePayloadEmbedded(model) ==
  EncodeTo(rootOnlyVisited(visitModelNode(model, NilIncluded, FALSE, <<>>)))

\* the loop of marshalMany over the models
RECURSIVE manyLoop(_, _, _, _, _)
RECURSIVE manyNext(_, _, _, _)
\* the loop after the visit of model i has returned r
manyNext(models, i, data, r) ==
  IF r.err # NoErr
  THEN [data |-> NilSlice, err |-> r.err, included |-> r.included, log |-> r.log]
  ELSE manyLoop(models, i + 1, AppendSlice(data, r.node), r.included, r.log)

manyLoop(models, i, data, included, log) ==
  IF i > Len(models) THEN [data |-> data, err |-> NoErr, included |-> included, log |-> log]
  ELSE manyNext(models, i, data, visitModelNode(models[i], included, TRUE, log))

\* data left as the loop made it
ManyDataAsAppended(models, data) == data

\* data after the loop of marshalMany
ManyData(models, data) == IF Len(models) = 0 THEN MkSlice(<<>>) ELSE data

\* marshalMany after its loop has yielded l; mn is what visitMetaNode
\* returns for a meta that is not nil
marshalManyVisited(models, meta, l, mn) ==
  IF l.err # NoErr THEN {Outcome(NilPayload, l.err, <<>>, l.log)}
  ELSE IF ~meta.isNil /\ mn.err # NoErr THEN {Outcome(NilPayload, mn.err, <<>>, l.log)}
  ELSE {Outcome(ManyPayload(ManyData(models, l.data), incl,
                            IF meta.isNil THEN NilMetaNode
                            ELSE [isNil |-> FALSE, m |-> mn.node]),
                NoErr, <<>>, l.log) :
          incl \in nodeMapValues(l.included)}

marshalMany(models, meta) ==
  marshalManyVisited(models, meta,
                     manyLoop(models, 1, NilSlice, MakeIncluded, <<>>),
                     visitMetaNode(meta))

MarshalMany(models) == marshalMany(models, NilMeta)

MarshalManyPayload(models) ==
  LET c == convertToSliceInterface(models)
  IN IF c.err # NoErr THEN {Outcome(NilPayload, c.err, <<>>, <<>>)}
     ELSE EncodeTo(MarshalMany(c.response))

MarshalManyPayloadWithMeta(models, meta) ==
  LET c == convertToSliceInterface(models)
  IN IF c.err # NoErr THEN {Outcome(NilPayload, c.err, <<>>, <<>>)}
     ELSE EncodeTo(marshalMany(c.response, meta))

(***************************************************************************)
(* The caller's objects.                                                   *)
(***************************************************************************)
Tag2(a, b) == <<a, ",", b>>
Tag3(a, b, c) == <<a, ",", b, ",", c>>

SeqsUpTo(n, S) == UNION {[1..k -> S] : k \in 0..n}

\* Graph heaps: objects 1..NumObjects, each a resource with a primary
\* field, an attribute holding the object's own number, a to-one and a
\* to-many relation.  Relations lead to higher-numbered objects only, so
\* the graph has no cycle and no relation leads to object 1.
Idents ==
  {[type |-> "t", id |-> StrVal(<<"1">>)],
   [type |-> "t", id |-> IntVal(1)],
   [type |-> "t", id |-> StrVal(<<"2">>)],
   [type |-> "u", id |-> StrVal(<<"1">>)]}

RootIdent == [type |-> "t", id |-> StrVal(<<"1">>)]

GraphObject(o, ident, one, many) ==
  <<Field(Tag2("primary", ident.type), ident.id),
    Field(Tag2("attr", "n"), IntVal(o)),
    Field(Tag2("relation", "one"), PtrVal(one)),
    Field(Tag2("relation", "many"), SliceVal(many))>>

Targets(o) == (o + 1)..NumObjects

GraphObjects(o) ==
  {GraphObject(o, ident, one, many) :
     ident \in (IF o = 1 THEN {RootIdent} ELSE Idents),
     one \in {0} \cup Targets(o),
     many \in SeqsUpTo(MaxRel, Targets(o))}

RECURSIVE HeapsFrom(_)
HeapsFrom(o) ==
  IF o > NumObjects THEN {<<>>}
  ELSE {<<c>> \o rest : c \in GraphObjects(o), rest \in HeapsFrom(o + 1)}

GraphHeaps == HeapsFrom(1)

\* Tag heaps: object 1 is a struct of up to MaxFields fields, each with one
\* of the tags and values below; object 2 is a well-formed resource without
\* relations; object 3 is the resource the relation fields of object 1
\* lead to, well-formed or not.
FieldOptions ==
  {Field(Tag2("primary", "t"), StrVal(<<"1">>)),
   Field(Tag2("primary", "t"), FloatVal(1)),
   Field(<<"primary">>, StrVal(<<"1">>)),
   Field(Tag3("primary", "t", "x"), StrVal(<<"1">>)),
   Field(<<"client-id">>, StrVal(<<"c">>)),
   Field(Tag2("client-id", "x"), StrVal(<<"c">>)),
   Field(Tag2("attr", "n"), StrVal(<<"x">>)),
   Field(Tag3("attr", "n", "omitempty"), StrVal(<<>>)),
   Field(Tag3("attr", "n", "bogus"), StrVal(<<>>)),
   Field(<<"attr">>, StrVal(<<"x">>)),
   Field(Tag2("relation", "r"), PtrVal(3)),
   Field(Tag3("relation", "r", "bogus"), PtrVal(3)),
   Field(<<"relation">>, PtrVal(3)),
   Field(Tag2("relation", "r"), SliceVal(<<3>>)),
   Field(Tag2("bogus", "n"), StrVal(<<"x">>)),
   Field(<<"bogus">>, StrVal(<<"x">>)),
   Field(<<>>, StrVal(<<"x">>))}

LeafObject ==
  <<Field(Tag2("primary", "t"), StrVal(<<"8">>)), Field(Tag2("attr", "n"), StrVal(<<"z">>))>>

ChildObjects ==
  {<<Field(Tag2("primary", "t"), StrVal(<<"9">>)), Field(Tag2("attr", "n"), StrVal(<<"y">>))>>,
   <<Field(Tag2("primary", "t"), FloatVal(9)), Field(Tag2("attr", "n"), StrVal(<<"y">>))>>,
   <<Field(Tag2("primary", "t"), StrVal(<<"9">>)), Field(<<"attr">>, StrVal(<<"y">>))>>}

TagHeaps ==
  {<<o1, LeafObject, o3>> : o1 \in SeqsUpTo(MaxFields, FieldOptions), o3 \in ChildObjects}

\* Time heaps: object 1 is a resource with up to MaxFields timestamp
\* attributes, object 2 a well-formed resource without timestamps.
Instants ==
  {ZeroTime,                                   \* January 1, year 1
   Time(I64(0), 1),                            \* a nanosecond later
   TimeUnix(I64(0), 0),                        \* January 1, 1970
   TimeUnix(I64(1257894000), 999000000)}       \* November 10, 2009

TimeValues ==
  {TimeVal(t) : t \in Instants}
    \cup {TimePtrVal(0, ZeroTime)}
    \cup {TimePtrVal(1, t) : t \in Instants}

TimeTags ==
  {Tag2("attr", "at"), Tag3("attr", "at", "omitempty"),
   Tag2("attr", "bt"), Tag3("attr", "bt", "omitempty")}

TimeFieldOptions == {Field(t, v) : t \in TimeTags, v \in TimeValues}

TimeHeaps ==
  {<<<<Field(Tag2("primary", "t"), StrVal(<<"1">>))>> \o fs, LeafObject>> :
     fs \in SeqsUpTo(MaxFields, TimeFieldOptions)}

(***************************************************************************)
(* The arguments a caller passes.                                          *)
(***************************************************************************)
\* the objects a caller passes at the top level: its first two
ModelArgs == {PtrVal(o) : o \in (DOMAIN heap) \cap 1..2}

\* models: a []*T of these objects, a []*T holding nil, a []T of struct
\* values, a []int, or a struct pointer instead of a slice
ModelsArgs ==
  {InterfaceSlice(e) : e \in SeqsUpTo(MaxModels, ModelArgs)}
    \cup {InterfaceSlice(<<PtrVal(0)>>),
          InterfaceSlice(<<Val("struct", <<>>, 0, 1, <<>>)>>),
          InterfaceSlice(<<IntVal(7)>>),
          NonSlice("ptr")}

\* the tag a field carries in a meta struct: the tag without its role
RECURSIVE MetaFields(_)
MetaFields(fs) ==
  IF fs = <<>> THEN <<>>
  ELSE IF fs[1].val.kind \in {"time", "*time"}
       THEN <<Field(SubSeq(fs[1].tag, 3, Len(fs[1].tag)), fs[1].val)>> \o MetaFields(Tail(fs))
       ELSE MetaFields(Tail(fs))

\* a caller whose first object has timestamps also passes a meta struct
\* with the same timestamp fields
TimeMetaArgs ==
  IF Len(heap) >= 1 /\ MetaFields(heap[1]) # <<>>
  THEN {MetaObject(MetaFields(heap[1]))} ELSE {}

MetaArgs ==
  {NilMeta,
   MetaObject(<<Field(<<"count">>, IntVal(1))>>),
   MetaObject(<<Field(Tag2("count", "omitempty"), IntVal(0))>>),
   MetaObject(<<Field(Tag2("count", "bogus"), IntVal(1))>>)}
    \cup TimeMetaArgs

(***************************************************************************)
(* The state machine: the caller holds its objects and makes one call.     *)
(***************************************************************************)
InitWith(heaps) ==
  /\ heap \in heaps
  /\ called = ""
  /\ arg = NullVal
  /\ metaArg = NilMeta
  /\ ret = [payload |-> NilPayload, err |-> NoErr]
  /\ written = <<>>
  /\ trace = <<>>
  /\ stack = <<>>
  /\ accumulator = NilIncluded

Init == InitWith(GraphHeaps)

InitTags == InitWith(TagHeaps)

InitTimes == InitWith(TimeHeaps)

Returns(name, a, meta, out) ==
  /\ called' = name
  /\ arg' = a
  /\ metaArg' = meta
  /\ ret' = [payload |-> out.payload, err |-> out.err]
  /\ written' = out.written
  /\ trace' = out.log
  /\ UNCHANGED <<heap, stack, accumulator>>

CallMarshalOne ==
  /\ called = ""
  /\ \E model \in ModelArgs : \E out \in MarshalOne(model) :
       Returns("MarshalOne", model, NilMeta, out)

CallMarshalOnePayload ==
  /\ called = ""
  /\ \E model \in ModelArgs : \E out \in MarshalOnePayload(model) :
       Returns("MarshalOnePayload", model, NilMeta, out)

CallMarshalOnePayloadWithoutIncluded ==
  /\ called = ""
  /\ \E model \in ModelArgs : \E out \in MarshalOnePayloadWithoutIncluded(model) :
       Returns("MarshalOnePayloadWithoutIncluded", model, NilMeta, out)

CallMarshalOnePayloadEmbedded ==
  /\ called = ""
  /\ \E model \in ModelArgs : \E out \in MarshalOnePayloadEmbedded(model) :
       Returns("MarshalOnePayloadEmbedded", model, NilMeta, out)

CallMarshalMany ==
  /\ called = ""
  /\ \E models \in ModelsArgs : \E out \in MarshalMany(models.elems) :
       /\ models.kind = "slice"
       /\ Returns("MarshalMany", models, NilMeta, out)

CallMarshalManyPayload ==
  /\ called = ""
  /\ \E models \in ModelsArgs : \E out \in MarshalManyPayload(models) :
       Returns("MarshalManyPayload", models, NilMeta, out)

CallMarshalManyPayloadWithMeta ==
  /\ called = ""
  /\ \E models \in ModelsArgs : \E meta \in MetaArgs :
       \E out \in MarshalManyPayloadWithMeta(models, meta) :
         Returns("MarshalManyPayloadWithMeta", models, meta, out)

Next ==
  \/ CallMarshalOne
  \/ CallMarshalOnePayload
  \/ CallMarshalOnePayloadWithoutIncluded
  \/ CallMarshalOnePayloadEmbedded
  \/ CallMarshalMany
  \/ CallMarshalManyPayload
  \/ CallMarshalManyPayloadWithMeta

Spec == Init /\ [][Next]_vars

SpecTags == InitTags /\ [][Next]_vars

SpecTimes == InitTimes /\ [][Next]_vars

(***************************************************************************)
(* The state machine of the codec: the caller holds one UnixMilli, object  *)
(* 1 of the heap, and calls its two methods in any order, also feeding the *)
(* bytes MarshalJSON returned back to UnmarshalJSON.                       *)
(***************************************************************************)
MaxDigits == 2     \* digits of the short numbers given to UnmarshalJSON

\* the numbers where the product v * 1000000 leaves int64 and where v
\* itself does
EdgeNumbers ==
  {<<"1", "2", "5", "7", "8", "9", "4", "0", "0", "0", "9", "9", "9">>,
   <<"9", "2", "2", "3", "3", "7", "2", "0", "3", "6", "8", "5", "4">>,
   <<"9", "2", "2", "3", "3", "7", "2", "0", "3", "6", "8", "5", "5">>,
   <<"9", "2", "2", "3", "3", "7", "2", "0", "3", "6", "8", "5", "4",
     "7", "7", "5", "8", "0", "7">>,
   <<"9", "2", "2", "3", "3", "7", "2", "0", "3", "6", "8", "5", "4",
     "7", "7", "5", "8", "0", "8">>}

ShortNumbers ==
  UNION {[1..k -> {"0", "1", "5", "9"}] : k \in 1..MaxDigits}
    \cup {<<"1", "0", "0", "0">>, <<"1", "5", "0", "0">>, <<"1", "9", "9", "9">>}

DataArgs ==
  {<<"n", "u", "l", "l">>, <<>>, <<"1", ".", "5">>, <<"+", "7">>}
    \cup ShortNumbers \cup EdgeNumbers
    \cup {<<"-">> \o n : n \in ShortNumbers \cup EdgeNumbers}

\* the instants the caller's UnixMilli starts with: around 1970, in 2009,
\* the zero time.Time, and the year 2300; whole and broken milliseconds
StartSeconds ==
  {I64(0), I64(-1), I64(1257894000), Unix(ZeroTime),
   Add64(Mul64(I64(10413792), 1000), I64(0))}

StartNanos == {0, 1, 1000000, 998500000, 999999999}

StartInstants == {TimeUnix(sec, nsec) : sec \in StartSeconds, nsec \in StartNanos}

InitMilli ==
  /\ heap \in {<<UnixMilli(t)>> : t \in StartInstants}
  /\ called = ""
  /\ arg = <<>>
  /\ metaArg = NilMeta
  /\ ret = [payload |-> <<>>, err |-> NoErr]
  /\ written = <<>>
  /\ trace = <<>>
  /\ stack = <<>>
  /\ accumulator = NilIncluded

\* the time.Time embedded in the caller's UnixMilli
TheTime == heap[1][1].val.tm

CallMarshalJSON ==
  /\ called' = "MarshalJSON"
  /\ arg' = <<>>
  /\ ret' = [payload |-> MarshalJSON(TheTime), err |-> NoErr]
  /\ UNCHANGED <<heap, metaArg, written, trace, stack, accumulator>>

\* the result r of UnmarshalJSON is stored through the pointer receiver
UnmarshalReturns(data, r) ==
  /\ called' = "UnmarshalJSON"
  /\ arg' = data
  /\ heap' = <<UnixMilli(r.t)>>
  /\ ret' = [payload |-> <<>>, err |-> r.err]
  /\ UNCHANGED <<metaArg, written, trace, stack, accumulator>>

CallUnmarshalJSON ==
  \E data \in DataArgs \cup (IF called = "MarshalJSON" THEN {ret.payload} ELSE {}) :
    UnmarshalReturns(data, UnmarshalJSON(TheTime, data))

NextMilli ==
  \/ CallMarshalJSON
  \/ CallUnmarshalJSON

SpecMilli == InitMilli /\ [][NextMilli]_vars

(***************************************************************************)
(* The traversal step by step.  A call of MarshalOnePayload or of          *)
(* MarshalOnePayloadEmbedded runs visitModelNode with its activations kept *)
(* on a stack: one step handles a field that leads to no further visit,    *)
(* calls visitModelNode for a related object, or returns from a visit to   *)
(* the activation that called it.  The heaps are graphs whose relations    *)
(* lead to any object, the object itself included; every element of a      *)
(* to-many relation is an object.                                          *)
(***************************************************************************)
MaxDepth == 5     \* activations of visitModelNode on the stack

\* a to-one relation to any object or to none, or a to-many relation; the
\* last object has to-one relations only
WalkRelations(o) ==
  {PtrVal(t) : t \in 0..NumObjects}
    \cup (IF o = NumObjects THEN {}
          ELSE {SliceVal(ts) : ts \in SeqsUpTo(MaxRel, 1..NumObjects)})

BogusField == Field(Tag2("bogus", "n"), StrVal(<<"x">>))

\* a resource with one relation field and, before or after it, a field
\* whose tag is malformed
WalkObject(o, rel, bogus) ==
  <<Field(Tag2("primary", "t"), IntVal(o))>>
    \o (IF bogus = "before" THEN <<BogusField>> ELSE <<>>)
    \o <<Field(Tag2("relation", "r"), rel)>>
    \o (IF bogus = "after" THEN <<BogusField>> ELSE <<>>)

WalkObjects(o) ==
  {WalkObject(o, rel, bogus) :
     rel \in WalkRelations(o),
     bogus \in (IF o = 2 THEN {"none", "before", "after"} ELSE {"none"})}

RECURSIVE WalkHeapsFrom(_)
WalkHeapsFrom(o) ==
  IF o > NumObjects THEN {<<>>}
  ELSE {<<c>> \o rest : c \in WalkObjects(o), rest \in WalkHeapsFrom(o + 1)}

WalkHeaps == WalkHeapsFrom(1)

\* the model a caller passes: its first object
WalkArgs == {PtrVal(1)}

\* an activation of visitModelNode: the object, the field the loop is at,
\* the node and error so far, whether the loop was left by break, and, in
\* visitModelNodeRelationships, the elements visited and their nodes
Frame(o) ==
  [obj |-> o, i |-> 1, node |-> NewNode, er |-> NoErr, brk |-> FALSE,
   j |-> 0, nodes |-> <<>>]

Top == stack[Len(stack)]

\* the third argument of visitModelNode
Sideload == called # "MarshalOnePayloadEmbedded"

\* a field loop that ends a visit of an object whose visit is in progress
\* further down the stack
LoopDoneWhenVisiting(f) ==
  \/ f.brk
  \/ f.i > Len(heap[f.obj])
  \/ \E k \in 1..(Len(stack) - 1) : stack[k].obj = f.obj

\* the field loop of the activation is over: left by break, or out of
\* fields
LoopDone(f) == f.brk \/ f.i > Len(heap[f.obj])

\* the field the loop is at leads to a call of visitModelNode
Recurses(f) ==
  LET structField == heap[f.obj][f.i]
      args == Split(structField.tag)
  IN /\ structField.tag # <<>>
     /\ Len(args) >= 1
     /\ ~BadArity(args[1], Len(args))
     /\ args[1] = <<"relation">>
     /\ structField.val.kind \in {"slice", "ptr"}
     /\ ~RelationEmpty(structField.val)

\* the object that call visits
Callee(f) ==
  LET fieldValue == heap[f.obj][f.i].val
  IN IF fieldValue.kind = "slice" THEN fieldValue.refs[f.j + 1] ELSE fieldValue.ref

\* the activation after its iteration for field i has yielded s
Resume(f, s) ==
  [f EXCEPT !.i = f.i + 1, !.node = s.node, !.er = s.er, !.brk = s.brk,
            !.j = 0, !.nodes = <<>>]

\* the entry point calls visitModelNode for the model
EnterWith(name, incl) ==
  /\ \E model \in WalkArgs :
       /\ called' = name
       /\ arg' = model
       /\ stack' = <<Frame(model.ref)>>
       /\ trace' = <<EnterEv(model.ref)>>
  /\ accumulator' = incl
  /\ UNCHANGED <<heap, metaArg, ret, written>>

EnterMarshalOnePayload ==
  /\ called = ""
  /\ EnterWith("MarshalOnePayload", MakeIncluded)

EnterMarshalOnePayloadEmbedded ==
  /\ called = ""
  /\ EnterWith("MarshalOnePayloadEmbedded", NilIncluded)

FieldStepped(f, s) ==
  /\ stack' = [stack EXCEPT ![Len(stack)] = Resume(f, s)]
  /\ accumulator' = s.included
  /\ trace' = s.log
  /\ UNCHANGED <<heap, called, arg, metaArg, ret, written>>

\* an iteration of the field loop that visits no other object
FieldStep ==
  /\ stack # <<>>
  /\ ~LoopDone(Top)
  /\ ~Recurses(Top)
  /\ FieldStepped(Top, visitField(Top.obj, Top.i, Top.node, Top.er, accumulator, Sideload, trace))

\* the call of visitModelNode for a to-one relation, or for the next
\* element of a to-many relation
RelationCall ==
  /\ stack # <<>>
  /\ ~LoopDone(Top)
  /\ Recurses(Top)
  /\ Len(stack) < MaxDepth
  /\ stack' = Append(stack, Frame(Callee(Top)))
  /\ trace' = Append(IF Top.j = 0 THEN Append(trace, FieldEv(Top.obj, Top.i)) ELSE trace,
                     EnterEv(Callee(Top)))
  /\ UNCHANGED <<heap, called, arg, metaArg, ret, written, accumulator>>

\* the caller c takes up its field loop with the step s
CallerResumes(c, s) ==
  /\ stack' = Append(SubSeq(stack, 1, Len(stack) - 2), Resume(c, s))
  /\ accumulator' = s.included
  /\ trace' = s.log

\* the caller c goes on to the next element of its to-many relation
CallerLoops(c, r) ==
  /\ stack' = Append(SubSeq(stack, 1, Len(stack) - 2),
                     [c EXCEPT !.j = c.j + 1, !.nodes = Append(c.nodes, r.node)])
  /\ accumulator' = r.included
  /\ trace' = r.log

\* the visit called by c for its field fieldValue has returned r
CallerTakes(c, fieldValue, args, r) ==
  IF fieldValue.kind = "ptr"
  THEN CallerResumes(c, relationOneVisited(c.node, c.er, Sideload, args, r))
  ELSE IF r.err = NoErr /\ c.j + 1 < Len(fieldValue.refs)
  THEN CallerLoops(c, r)
  ELSE CallerResumes(c, relationManyVisited(c.node, c.er, Sideload, args,
                          relationshipsNext(fieldValue.refs, Len(fieldValue.refs),
                                            c.nodes, Sideload, r)))

\* a visit returns to the activation that called it
VisitReturn ==
  /\ Len(stack) >= 2
  /\ LoopDone(Top)
  /\ CallerTakes(stack[Len(stack) - 1],
                 heap[stack[Len(stack) - 1].obj][stack[Len(stack) - 1].i].val,
                 Split(heap[stack[Len(stack) - 1].obj][stack[Len(stack) - 1].i].tag),
                 visitReturn(Top.obj, Top.node, Top.er, accumulator, trace))
  /\ UNCHANGED <<heap, called, arg, metaArg, ret, written>>

\* the tail of the entry point after the visit of the model has returned r
WalkOutcomes(r) ==
  IF Sideload THEN EncodeTo(marshalOneVisited(r)) ELSE EncodeTo(rootOnlyVisited(r))

\* the visit of the model returns and the entry point returns to the caller
ReturnToCaller ==
  /\ Len(stack) = 1
  /\ LoopDone(Top)
  /\ \E out \in WalkOutcomes(visitReturn(Top.obj, Top.node, Top.er, accumulator, trace)) :
       /\ ret' = [payload |-> out.payload, err |-> out.err]
       /\ written' = out.written
       /\ trace' = out.log
  /\ stack' = <<>>
  /\ UNCHANGED <<heap, called, arg, metaArg, accumulator>>

InitWalk == InitWith(WalkHeaps)

NextWalk ==
  \/ EnterMarshalOnePayload
  \/ EnterMarshalOnePayloadEmbedded
  \/ FieldStep
  \/ RelationCall
  \/ VisitReturn
  \/ ReturnToCaller

\* the caller makes its call and the goroutine of the call keeps running
SpecWalk == InitWalk /\ [][NextWalk]_vars /\ WF_vars(NextWalk)

(***************************************************************************)
(* Reading the call and the caller's objects, for the properties below.    *)
(***************************************************************************)
OneOps == {"MarshalOne", "MarshalOnePayload", "MarshalOnePayloadWithoutIncluded",
           "MarshalOnePayloadEmbedded"}
ManyOps == {"MarshalMany", "MarshalManyPayload", "MarshalManyPayloadWithMeta"}
WriterOps == {"MarshalOnePayload", "MarshalOnePayloadWithoutIncluded",
              "MarshalOnePayloadEmbedded", "MarshalManyPayload",
              "MarshalManyPayloadWithMeta"}
\* the sideloading entry points that hand out the included list
IncludingOps == {"MarshalOne", "MarshalOnePayload"} \cup ManyOps

Success == called # "" /\ ret.err = NoErr

\* the document the call produced: returned, or encoded to the writer
ThePayload == IF written # <<>> THEN written[1] ELSE ret.payload

Range(f) == {f[i] : i \in DOMAIN f}

\* the objects the call was given
CallRoots ==
  IF called \in OneOps THEN <<arg.ref>>
  ELSE [i \in 1..Len(arg.elems) |-> arg.elems[i].ref]

RootNodes ==
  IF called \in OneOps THEN <<ThePayload.Data>> ELSE ThePayload.Data.elems

PairOf(n) == <<n.Type, n.ID>>

\* first component and number of components of a tag, read off the tag
FirstComp(tag) == IF tag = <<>> \/ tag[1] = "," THEN "" ELSE tag[1]
NComps(tag) == 1 + Cardinality({i \in DOMAIN tag : tag[i] = ","})
\* component k of a tag with single-word components
Comp(tag, k) == IF 2 * k - 1 \in DOMAIN tag THEN tag[2 * k - 1] ELSE ""

IsRelationField(f) == FirstComp(f.tag) = "relation" /\ NComps(f.tag) >= 2
WireName(f) == <<Comp(f.tag, 2)>>

\* the objects a field refers to, in order
FieldTargets(f) ==
  IF f.val.kind = "slice" THEN f.val.refs
  ELSE IF f.val.kind = "ptr" /\ f.val.ref # 0 THEN <<f.val.ref>>
  ELSE <<>>

RelationFields(o) == {i \in DOMAIN heap[o] : IsRelationField(heap[o][i])}

Related(o) == UNION {Range(FieldTargets(heap[o][i])) : i \in RelationFields(o)}

\* the objects reached from o through one or more relation fields
RECURSIVE Below(_)
Below(o) == UNION {{t} \cup Below(t) : t \in Related(o)}

Reached == UNION {Below(r) : r \in Range(CallRoots)}

\* type and id of a resource of a graph heap, as its primary field gives them
ObjType(o) == <<Comp(heap[o][1].tag, 2)>>
ObjID(o) ==
  LET v == heap[o][1].val
  IN IF v.kind = "string" THEN v.str ELSE Itoa(v.num)
ObjPair(o) == <<ObjType(o), ObjID(o)>>

\* the attributes of the node of a resource of a graph heap
ObjAttributes(o) == (<<"n">> :> IntVal(o))
\* the resource of a graph heap a full node was built from
ObjOf(n) == n.Attributes[<<"n">>].num

IncludedNodes == ThePayload.Included.elems

(***************************************************************************)
(* C1: after a successful sideloading marshal, included holds exactly one  *)
(* node for each distinct (type,id) of the resources reached through       *)
(* relation fields: no pair twice, no reached pair missing, no two pairs   *)
(* merged.                                                                 *)
(***************************************************************************)
C1_IncludedOncePerPair ==
  (Success /\ called \in IncludingOps) =>
    /\ {PairOf(IncludedNodes[i]) : i \in DOMAIN IncludedNodes}
         = {ObjPair(o) : o \in Reached}
    /\ \A i, j \in DOMAIN IncludedNodes :
         i # j => PairOf(IncludedNodes[i]) # PairOf(IncludedNodes[j])

\* two roots of a "many" call reach two resources of one (type,id), kept once
C1_Witness ==
  /\ Success /\ called = "MarshalMany"
  /\ Len(arg.elems) = 2 /\ arg.elems[1].ref # arg.elems[2].ref
  /\ \E a, b \in Reached : a # b /\ ObjPair(a) = ObjPair(b)
  /\ Cardinality(Reached) = 2
  /\ Len(IncludedNodes) = 1

(***************************************************************************)
(* C2: the mode of the top-level call fixes the shape of every linkage.    *)
(* Sideload: every reference of every linkage, in root nodes and in nodes  *)
(* of included, carries type and id only.  Embedded: every linkage holds   *)
(* the full node of its target, at every depth, and the accumulator is     *)
(* never touched.                                                          *)
(***************************************************************************)
IsShallow(n) == n.ClientID = <<>> /\ n.Attributes = <<>> /\ n.Relationships = <<>>

LinkRefs(n) ==
  UNION {Range(n.Relationships[k].data) : k \in DOMAIN n.Relationships}

\* the relation fields of o that have a target
LinkedFields(o) == {i \in RelationFields(o) : FieldTargets(heap[o][i]) # <<>>}

\* node is the full node of resource o, with the full nodes of everything
\* below o nested in its linkages
RECURSIVE EmbeddedMatches(_, _)
EmbeddedMatches(node, o) ==
  /\ PairOf(node) = ObjPair(o)
  /\ node.Attributes = ObjAttributes(o)
  /\ DOMAIN node.Relationships = {WireName(heap[o][i]) : i \in LinkedFields(o)}
  /\ \A i \in LinkedFields(o) :
       LET l == node.Relationships[WireName(heap[o][i])]
           ts == FieldTargets(heap[o][i])
       IN /\ Len(l.data) = Len(ts)
          /\ \A j \in DOMAIN ts : EmbeddedMatches(l.data[j], ts[j])

C2_LinkageShapeByMode ==
  /\ (Success /\ called # "MarshalOnePayloadEmbedded") =>
       /\ \A n \in Range(RootNodes) : \A r \in LinkRefs(n) : IsShallow(r)
       /\ \A n \in Range(IncludedNodes) : \A r \in LinkRefs(n) : IsShallow(r)
  /\ called = "MarshalOnePayloadEmbedded" =>
       /\ \A p \in DOMAIN trace : trace[p].ev # "append"
       /\ Success => /\ EmbeddedMatches(ThePayload.Data, arg.ref)
                     /\ ThePayload.Included = NilSlice

\* an embedded document two levels deep: the to-one target of the root
\* carries its own to-many linkage of two full nodes
C2_Witness ==
  /\ Success /\ called = "MarshalOnePayloadEmbedded"
  /\ <<"one">> \in DOMAIN ThePayload.Data.Relationships
  /\ LET c == ThePayload.Data.Relationships[<<"one">>].data[1]
     IN /\ <<"many">> \in DOMAIN c.Relationships
        /\ Len(c.Relationships[<<"many">>].data) = 2
        /\ \A r \in Range(c.Relationships[<<"many">>].data) : ~IsShallow(r)

(***************************************************************************)
(* C3: which of several resources of one (type,id) is kept in included.    *)
(***************************************************************************)
\* the related resources in the order their visits begin
RECURSIVE PreOrderBelow(_)
RECURSIVE PreOrderFrom(_, _)
RECURSIVE PreOrderFields(_, _)
PreOrderFrom(ts, j) ==
  IF j > Len(ts) THEN <<>>
  ELSE <<ts[j]>> \o PreOrderBelow(ts[j]) \o PreOrderFrom(ts, j + 1)
PreOrderFields(o, i) ==
  IF i > Len(heap[o]) THEN <<>>
  ELSE (IF IsRelationField(heap[o][i]) THEN PreOrderFrom(FieldTargets(heap[o][i]), 1)
        ELSE <<>>) \o PreOrderFields(o, i + 1)
PreOrderBelow(o) == PreOrderFields(o, 1)

\* the related resources in the order they are handed to the accumulator:
\* the targets of a field after everything below them
RECURSIVE InsertOrderBelow(_)
RECURSIVE InsertOrderFrom(_, _)
RECURSIVE InsertOrderFields(_, _)
InsertOrderFrom(ts, j) ==
  IF j > Len(ts) THEN <<>>
  ELSE InsertOrderBelow(ts[j]) \o InsertOrderFrom(ts, j + 1)
InsertOrderFields(o, i) ==
  IF i > Len(heap[o]) THEN <<>>
  ELSE (IF IsRelationField(heap[o][i])
        THEN InsertOrderFrom(FieldTargets(heap[o][i]), 1) \o FieldTargets(heap[o][i])
        ELSE <<>>) \o InsertOrderFields(o, i + 1)
InsertOrderBelow(o) == InsertOrderFields(o, 1)

RECURSIVE OverRoots(_, _, _)
OverRoots(Order(_), roots, i) ==
  IF i > Len(roots) THEN <<>> ELSE Order(roots[i]) \o OverRoots(Order, roots, i + 1)

PreOrder == OverRoots(PreOrderBelow, CallRoots, 1)
InsertOrder == OverRoots(InsertOrderBelow, CallRoots, 1)

\* the first resource of a sequence that carries the pair
FirstWithPair(seq, pair) ==
  LET i == CHOOSE k \in DOMAIN seq :
             /\ ObjPair(seq[k]) = pair
             /\ \A m \in 1..(k - 1) : ObjPair(seq[m]) # pair
  IN seq[i]

\* node n of included was built from resource o
BuiltFrom(n, o) ==
  /\ n.Attributes = ObjAttributes(o)
  /\ DOMAIN n.Relationships = {WireName(heap[o][i]) : i \in LinkedFields(o)}

\* C3 as stated: the kept node is the one of the resource whose visit began
\* first
C3_KeepsFirstVisited ==
  (Success /\ called \in IncludingOps) =>
    \A n \in Range(IncludedNodes) : BuiltFrom(n, FirstWithPair(PreOrder, PairOf(n)))

\* C3, amended: the kept node is the one of the resource handed to the
\* accumulator first, which is after its visit has returned for a to-one
\* target and after the visits of all the elements for a to-many field:
\* a duplicate nested below a resource is kept instead of that resource
C3_KeepsFirstInserted ==
  (Success /\ called \in IncludingOps) =>
    \A n \in Range(IncludedNodes) : BuiltFrom(n, FirstWithPair(InsertOrder, PairOf(n)))

\* a resource and a duplicate nested below it: the nested one is kept
C3_Witness ==
  /\ Success /\ called = "MarshalOne"
  /\ \E n \in Range(IncludedNodes) :
       /\ FirstWithPair(PreOrder, PairOf(n)) # FirstWithPair(InsertOrder, PairOf(n))
       /\ FirstWithPair(InsertOrder, PairOf(n)) \in Below(FirstWithPair(PreOrder, PairOf(n)))
       /\ BuiltFrom(n, FirstWithPair(InsertOrder, PairOf(n)))

(***************************************************************************)
(* C4: an error anywhere in a top-level call, at any depth and at any      *)
(* position of the input, is what the call returns, with a nil payload and *)
(* nothing written to the writer.                                          *)
(***************************************************************************)
\* a tag of the meta object that visitMetaNode is to reject
MetaTagViolation(tag) ==
  tag # <<>> /\ (NComps(tag) > 2 \/ (NComps(tag) = 2 /\ Comp(tag, 2) # "omitempty"))
MetaViolation(meta) ==
  ~meta.isNil /\ \E i \in DOMAIN meta.fields : MetaTagViolation(meta.fields[i].tag)

\* the visits that returned an error
FailedReturns == {p \in DOMAIN trace : trace[p].ev = "return" /\ trace[p].err # NoErr}

C4_ErrorAbortsCall ==
  called # "" =>
    /\ ret.err # NoErr => (ret.payload = NilPayload /\ written = <<>>)
    /\ FailedReturns # {} =>
         ret.err = trace[CHOOSE p \in FailedReturns : \A q \in FailedReturns : p <= q].err
    /\ (called = "MarshalManyPayloadWithMeta" /\ MetaViolation(metaArg)) => ret.err # NoErr
    /\ (called \in {"MarshalManyPayload", "MarshalManyPayloadWithMeta"} /\ arg.kind # "slice")
         => ret.err = ErrExpectedSlice
    /\ (ret.err = NoErr /\ called \in WriterOps) => (Len(written) = 1 /\ written[1] # NilPayload)
    /\ (ret.err = NoErr /\ called \notin WriterOps) => ret.payload # NilPayload

\* the second model of a slice fails two levels down, after the first model
\* has been visited: nothing is written
C4_Witness ==
  /\ called = "MarshalManyPayload"
  /\ Len(arg.elems) = 2 /\ arg.elems[1].ref = 2 /\ arg.elems[2].ref = 1
  /\ ReturnEv(2, NoErr) \in Range(trace)
  /\ ReturnEv(3, ErrBadJSONAPIID) \in Range(trace)
  /\ ret.err = ErrBadJSONAPIID
  /\ written = <<>>

(***************************************************************************)
(* C5: the visit of an object stops at its first structural violation, and *)
(* that violation is the error returned: after a primary field whose value *)
(* has an unsupported type no later field of the object is interpreted,    *)
(* and the call returns ErrBadJSONAPIID.                                   *)
(***************************************************************************)
PrimaryTypeViolation(f) ==
  /\ FirstComp(f.tag) = "primary" /\ NComps(f.tag) = 2
  /\ f.val.kind \notin {"string", "int", "int64", "uint64"}

C5_StopsAtFirstViolation ==
  \A p \in DOMAIN trace :
    (trace[p].ev = "field" /\ PrimaryTypeViolation(heap[trace[p].obj][trace[p].idx])) =>
      /\ \A q \in DOMAIN trace :
           q > p => ~(trace[q].ev = "field" /\ trace[q].obj = trace[p].obj)
      /\ ret.err = ErrBadJSONAPIID

(***************************************************************************)
(* C6: which tags make visitModelNode fail with ErrBadJSONAPIStructTag.    *)
(***************************************************************************)
Annotations == {"primary", "client-id", "attr", "relation"}

\* the malformed tags as stated
TagViolationAsStated(tag) ==
  \/ FirstComp(tag) \notin Annotations
  \/ (FirstComp(tag) = "primary" /\ NComps(tag) > 2)
  \/ (FirstComp(tag) = "client-id" /\ NComps(tag) # 1)
  \/ (FirstComp(tag) \in {"primary", "attr", "relation"} /\ NComps(tag) < 2)

\* the malformed tags, a primary tag of more than two components not
\* being one of them
TagViolation(tag) ==
  \/ FirstComp(tag) \notin Annotations
  \/ (FirstComp(tag) = "client-id" /\ NComps(tag) # 1)
  \/ (FirstComp(tag) \in {"primary", "attr", "relation"} /\ NComps(tag) < 2)

\* the visit returns ErrBadJSONAPIStructTag right at step p of the trace
FailsWithBadTagAt(p) ==
  p < Len(trace) /\ trace[p + 1] = ReturnEv(trace[p].obj, ErrBadJSONAPIStructTag)

\* C6 as stated: the visit fails at a tagged field exactly when its tag is
\* malformed, a primary tag of more than two components included
C6_BadTagAsStated ==
  \A p \in DOMAIN trace :
    trace[p].ev = "field" =>
      (TagViolationAsStated(heap[trace[p].obj][trace[p].idx].tag) <=> FailsWithBadTagAt(p))

\* C6, amended: the visit fails with ErrBadJSONAPIStructTag at a tagged
\* field exactly when the tag's first component is no annotation, a
\* client-id tag has a component besides the role, or a primary, attr or
\* relation tag has fewer than two components; a primary tag of more than
\* two components is accepted, its extra components ignored
C6_BadTag ==
  \A p \in DOMAIN trace :
    trace[p].ev = "field" =>
      (TagViolation(heap[trace[p].obj][trace[p].idx].tag) <=> FailsWithBadTagAt(p))

\* a struct whose primary tag has three components is marshalled
C6_Witness ==
  /\ Success /\ called = "MarshalOne" /\ arg.ref = 1
  /\ \E i \in DOMAIN heap[1] :
       /\ heap[1][i].tag = Tag3("primary", "t", "x")
       /\ FieldEv(1, i) \in Range(trace)
  /\ ret.payload.Data.Type = <<"t">>

(***************************************************************************)
(* C7: an option component of an attr or relation tag (the third) or of a  *)
(* meta tag (the second) other than "omitempty" makes the call fail with   *)
(* ErrBadJSONAPIStructTag.                                                 *)
(***************************************************************************)
OptionViolation(tag) ==
  /\ FirstComp(tag) \in {"attr", "relation"}
  /\ NComps(tag) >= 3
  /\ Comp(tag, 3) # "omitempty"

C7_OptionMustBeOmitempty ==
  /\ \A p \in DOMAIN trace :
       (trace[p].ev = "field" /\ OptionViolation(heap[trace[p].obj][trace[p].idx].tag))
         => FailsWithBadTagAt(p)
  /\ (called = "MarshalManyPayloadWithMeta" /\ arg.kind = "slice" /\ FailedReturns = {}
        /\ ret.err # Panic /\ MetaViolation(metaArg))
       => ret.err = ErrBadJSONAPIStructTag

(***************************************************************************)
(* C8: MarshalManyPayload and MarshalManyPayloadWithMeta return            *)
(* ErrExpectedSlice for every input that is not a slice of struct          *)
(* pointers.                                                               *)
(***************************************************************************)
IsSliceOfStructPointers(models) ==
  /\ models.kind = "slice"
  /\ \A i \in DOMAIN models.elems : models.elems[i].kind = "ptr" /\ models.elems[i].ref # 0

C8_ExpectedSlice ==
  (called \in {"MarshalManyPayload", "MarshalManyPayloadWithMeta"}
     /\ ~IsSliceOfStructPointers(arg))
    => ret.err = ErrExpectedSlice

(***************************************************************************)
(* C9: the data of every payload of a successful "many" marshal is a list, *)
(* never nil: the empty list for no models, else the root node of each     *)
(* model in input order.                                                   *)
(***************************************************************************)
C9_ManyDataIsList ==
  (Success /\ called \in ManyOps) =>
    /\ ~ThePayload.Data.isNil
    /\ Len(ThePayload.Data.elems) = Len(arg.elems)
    /\ \A i \in DOMAIN arg.elems :
         /\ PairOf(ThePayload.Data.elems[i]) = ObjPair(arg.elems[i].ref)
         /\ BuiltFrom(ThePayload.Data.elems[i], arg.elems[i].ref)

\* no models: data is the empty list
C9_Witness ==
  /\ Success /\ called = "MarshalManyPayload"
  /\ arg.elems = <<>>
  /\ written[1].Data = MkSlice(<<>>)

(***************************************************************************)
(* C10: a relation field that is an empty collection or a nil reference    *)
(* adds no key to relationships, visits nothing and inserts nothing; a     *)
(* relation field with targets adds one key under its wire name, with the  *)
(* references in the order of the collection.                              *)
(***************************************************************************)
\* the full nodes of the document: the roots and the nodes of included
FullNodes ==
  Range(RootNodes)
    \cup (IF called \in IncludingOps THEN Range(IncludedNodes) ELSE {})

C10_RelationKeys ==
  /\ Success =>
       \A n \in FullNodes :
         /\ DOMAIN n.Relationships \subseteq {WireName(heap[ObjOf(n)][i]) : i \in RelationFields(ObjOf(n))}
         /\ \A i \in RelationFields(ObjOf(n)) :
              LET f == heap[ObjOf(n)][i]
                  ts == FieldTargets(f)
              IN IF ts = <<>> THEN WireName(f) \notin DOMAIN n.Relationships
                 ELSE /\ WireName(f) \in DOMAIN n.Relationships
                      /\ n.Relationships[WireName(f)].many = (f.val.kind = "slice")
                      /\ Len(n.Relationships[WireName(f)].data) = Len(ts)
                      /\ \A j \in DOMAIN ts :
                           PairOf(n.Relationships[WireName(f)].data[j]) = ObjPair(ts[j])
  /\ \A p \in DOMAIN trace :
       (/\ trace[p].ev = "field"
        /\ IsRelationField(heap[trace[p].obj][trace[p].idx])
        /\ FieldTargets(heap[trace[p].obj][trace[p].idx]) = <<>>)
         => /\ p < Len(trace)
            /\ trace[p + 1].ev \in {"field", "return"}
            /\ trace[p + 1].obj = trace[p].obj

\* a root with a nil to-one relation and a to-many relation of two targets
C10_Witness ==
  /\ Success /\ called = "MarshalOne" /\ arg.ref = 1
  /\ heap[1][3].val = PtrVal(0)
  /\ heap[1][4].val = SliceVal(<<3, 2>>)
  /\ DOMAIN ret.payload.Data.Relationships = {<<"many">>}
  /\ Len(ret.payload.Data.Relationships[<<"many">>].data) = 2

(***************************************************************************)
(* C11: whether a timestamp field shows in the attributes of a node, or in *)
(* a meta object: a zero time.Time never; a nil *time.Time as null unless  *)
(* omitempty is set; a *time.Time to the zero instant unless omitempty is  *)
(* set; every other timestamp always, under the wire name of its tag.      *)
(***************************************************************************)
IsTimestamp(v) == v.kind \in {"time", "*time"}

\* the rule, for a timestamp v and the omitempty option of its tag
TimestampShown(v, omitempty) ==
  IF v.kind = "time" THEN v.tm # ZeroTime
  ELSE IF v.ref = 0 THEN ~omitempty
  ELSE ~(v.tm = ZeroTime /\ omitempty)

\* the timestamp fields of a struct that show under a name; the name is
\* component k of the tag, the option the component after it
ShownUnder(fs, name, k) ==
  {i \in DOMAIN fs :
     /\ IsTimestamp(fs[i].val)
     /\ <<Comp(fs[i].tag, k)>> = name
     /\ TimestampShown(fs[i].val, Comp(fs[i].tag, k + 1) = "omitempty")}

TimestampNames(fs, k) == {<<Comp(fs[i].tag, k)>> : i \in {j \in DOMAIN fs : IsTimestamp(fs[j].val)}}

\* the map m built from the struct fs follows the rule
FollowsTimestampRule(m, fs, k) ==
  \A name \in TimestampNames(fs, k) :
    LET shown == ShownUnder(fs, name, k)
    IN /\ (name \in DOMAIN m) <=> (shown # {})
       /\ shown # {} =>
            LET v == fs[CHOOSE i \in shown : \A j \in shown : j <= i].val
            IN IF v.kind = "*time" /\ v.ref = 0 THEN m[name] = NullVal
               ELSE m[name].kind = "int64" /\ m[name].wide = Unix(v.tm)

C11_TimestampPresence ==
  Success =>
    /\ \A i \in DOMAIN RootNodes :
         FollowsTimestampRule(RootNodes[i].Attributes, heap[CallRoots[i]], 2)
    /\ (called = "MarshalManyPayloadWithMeta" /\ ~metaArg.isNil) =>
         FollowsTimestampRule(ThePayload.Meta.m, metaArg.fields, 1)

\* a resource and a meta object with a *time.Time to the zero instant,
\* shown, and a nil *time.Time with omitempty, left out
C11_Witness ==
  /\ Success /\ called = "MarshalManyPayloadWithMeta"
  /\ Len(arg.elems) = 1 /\ arg.elems[1].ref = 1
  /\ Len(heap[1]) = 3
  /\ heap[1][2] = Field(Tag2("attr", "at"), TimePtrVal(1, ZeroTime))
  /\ heap[1][3] = Field(Tag3("attr", "bt", "omitempty"), TimePtrVal(0, ZeroTime))
  /\ ~metaArg.isNil /\ Len(metaArg.fields) = 2
  /\ DOMAIN written[1].Data.elems[1].Attributes = {<<"at">>}
  /\ DOMAIN written[1].Meta.m = {<<"at">>}
  /\ FormatInt(written[1].Meta.m[<<"at">>].wide)
       = <<"-", "6", "2", "1", "3", "5", "5", "9", "6", "8", "0", "0">>

(***************************************************************************)
(* C12: the millisecond codec round-trips.  UnmarshalJSON of an integer v  *)
(* and then MarshalJSON gives v back, negative v included; MarshalJSON of  *)
(* an instant and then UnmarshalJSON of the bytes gives the instant with   *)
(* its part below the millisecond dropped.                                 *)
(***************************************************************************)
RECURSIVE StripZeros(_)
StripZeros(cs) == IF Len(cs) > 1 /\ cs[1] = "0" THEN StripZeros(Tail(cs)) ELSE cs

\* the integer a text denotes, written without sign or zeros it can do
\* without
CanonicalNumber(cs) ==
  LET digits == StripZeros(IF cs[1] \in {"+", "-"} THEN Tail(cs) ELSE cs)
  IN IF cs[1] = "-" /\ digits # <<"0">> THEN <<"-">> \o digits ELSE digits

\* the instant t without its part below the millisecond
TruncateMilli(t) == Time(t.sec, t.nsec - (t.nsec % Millisecond))

C12_RoundTrip ==
  [][/\ (/\ called = "UnmarshalJSON" /\ ret.err = NoErr /\ arg # <<"n", "u", "l", "l">>
         /\ called' = "MarshalJSON")
          => ret'.payload = CanonicalNumber(arg)
     /\ (called = "MarshalJSON" /\ called' = "UnmarshalJSON" /\ arg' = ret.payload)
          => (ret'.err = NoErr /\ heap'[1][1].val.tm = TruncateMilli(TheTime))]_vars

(***************************************************************************)
(* C13: whether a top-level marshal call returns.  For a graph without a   *)
(* reference cycle the call returns, with a payload or an error, and the   *)
(* visit is entered for an object at most once for each path of relations  *)
(* that leads from the model to it.  For a graph in which an object the    *)
(* model leads to is reachable from itself through non-nil relation        *)
(* fields, and in which no object the model leads to has a malformed tag,  *)
(* the call never returns, sideloading or embedding.  As stated, the call  *)
(* never returns for any graph with such a cycle.                          *)
(***************************************************************************)
RECURSIVE ReachIn(_, _)
ReachIn(S, n) ==
  IF n = 0 THEN S ELSE ReachIn(S \cup UNION {Related(o) : o \in S}, n - 1)

\* the objects reached from o through one or more relation fields, in a
\* graph that may have cycles
ReachedFrom(o) == ReachIn(Related(o), Len(heap))

WalkRoots == {model.ref : model \in WalkArgs}

\* the objects of the graph below the model, the model's object included
Visitable == UNION {{r} \cup ReachedFrom(r) : r \in WalkRoots}

HasCycle == \E o \in Visitable : o \in ReachedFrom(o)

WellFormed ==
  \A o \in Visitable : \A i \in DOMAIN heap[o] :
    heap[o][i].tag = <<>> \/ ~TagViolation(heap[o][i].tag)

\* the call was made and has returned to the caller
Returned == called # "" /\ stack = <<>>

\* the relationship edges that lead to o: object, field, element
InEdges(o) ==
  {e \in Visitable \X (1..(MaxFields + 2)) \X (1..(MaxRel + 1)) :
     /\ e[2] \in RelationFields(e[1])
     /\ e[3] \in DOMAIN FieldTargets(heap[e[1]][e[2]])
     /\ FieldTargets(heap[e[1]][e[2]])[e[3]] = o}

\* the number of paths of relations from the model to o, in a graph
\* without a cycle
RECURSIVE Paths(_)
RECURSIVE PathsOver(_)
PathsOver(E) ==
  IF E = {} THEN 0
  ELSE LET e == CHOOSE x \in E : TRUE IN Paths(e[1]) + PathsOver(E \ {e})

Paths(o) == (IF o \in WalkRoots THEN 1 ELSE 0) + PathsOver(InEdges(o))

\* the number of times the visit was entered for o
Enters(o) == Cardinality({p \in DOMAIN trace : trace[p] = EnterEv(o)})

====
